---------------------------- MODULE Spec2Model ----------------------------
(***************************************************************************)
(* Model of app.py: the Streamlit script of the YouTube transcript         *)
(* downloader and chatbot.  One action is one run of the script from top   *)
(* to bottom (one user interaction), or one step of an external party      *)
(* (the administrator of the hosted tables, the calendar).                 *)
(*                                                                         *)
(* Strings are sequences of tokens; a token stands for one character or    *)
(* for a run of characters that the code never looks into ("youtu.be",     *)
(* "watch").  The token "https:" is a scheme with its colon and occurs     *)
(* only as the first token of a line; the characters ';', '@', ':', '%',   *)
(* '+', ']' and '(' do not occur in the modelled inputs.                   *)
(***************************************************************************)
EXTENDS Integers, Sequences, FiniteSets, TLC

\* ------------------------------------------------------------------ bounds
MaxDay == 2
MaxCount == 2
MaxAnswered == 3
MaxRows == 2
MaxPathLen == 3
MaxParamLen == 3

\* The quota constant of the check at app.py:154.
Quota == 2

\* ------------------------------------------------------------- Python values
None == [tag |-> "None", val |-> <<>>]
Str(s) == [tag |-> "str", val |-> s]
Raised(e) == [tag |-> "raise", val |-> <<e>>]

\* Python truthiness of an Optional[str]: None and "" are falsy.
Truthy(x) == x.tag = "str" /\ x.val # <<>>

\* ---------------------------------------------------------- string helpers
\* s[i:] and s[:i] with 0-based Python indices, as lists of tokens.
From(s, i) == SubSeq(s, i + 1, Len(s))
UpTo(s, i) == SubSeq(s, 1, i)

\* 1-based position of the first token of s in set cs at or after position k,
\* Len(s) + 1 if there is none.
RECURSIVE Find(_, _, _)
Find(s, cs, k) ==
  IF k > Len(s) THEN Len(s) + 1
  ELSE IF s[k] \in cs THEN k
  ELSE Find(s, cs, k + 1)

\* str.split(sep): the pieces between the occurrences of sep.
RECURSIVE Split(_, _)
Split(s, sep) ==
  LET i == Find(s, {sep}, 1)
  IN IF i > Len(s) THEN <<s>>
     ELSE <<SubSeq(s, 1, i - 1)>> \o Split(SubSeq(s, i + 1, Len(s)), sep)

\* str.split(sep, 1): at most one split.
Split1(s, sep) ==
  LET i == Find(s, {sep}, 1)
  IN IF i > Len(s) THEN <<s>>
     ELSE <<SubSeq(s, 1, i - 1), SubSeq(s, i + 1, Len(s))>>

\* str.strip(): leading and trailing blanks removed.
RECURSIVE LStrip(_)
LStrip(s) == IF s # <<>> /\ Head(s) = " " THEN LStrip(Tail(s)) ELSE s
RECURSIVE RStrip(_)
RStrip(s) ==
  IF s # <<>> /\ s[Len(s)] = " " THEN RStrip(SubSeq(s, 1, Len(s) - 1)) ELSE s
Strip(s) == RStrip(LStrip(s))

\* str.lower() on the tokens that carry upper-case letters.
LowerTok(t) == IF t = "YOUTU.BE" THEN "youtu.be" ELSE t
Lower(s) == [i \in 1..Len(s) |-> LowerTok(s[i])]

\* ------------------------------------------------------- urllib.parse
\* urlparse(url): scheme, then "//" netloc up to the first of / ? #, then the
\* fragment after the first '#', then the query after the first '?'.  A
\* netloc with an unmatched '[' raises ValueError("Invalid IPv6 URL").
urlparse(url) ==
  LET hasScheme == url # <<>> /\ url[1] = "https:"
      u1 == IF hasScheme THEN Tail(url) ELSE url
      hasNet == Len(u1) >= 2 /\ u1[1] = "/" /\ u1[2] = "/"
      delim == Find(u1, {"/", "?", "#"}, 3)
      netloc == IF hasNet THEN SubSeq(u1, 3, delim - 1) ELSE <<>>
      u2 == IF hasNet THEN SubSeq(u1, delim, Len(u1)) ELSE u1
      u3 == Split1(u2, "#")[1]
      pq == Split1(u3, "?")
  IN [ok |-> ~(\E i \in 1..Len(netloc) : netloc[i] = "["),
      netloc |-> netloc,
      \* q.hostname: None for an empty netloc, else the netloc in lower case
      hostname |-> IF netloc = <<>> THEN None ELSE Str(Lower(netloc)),
      path |-> pq[1],
      query |-> IF Len(pq) = 2 THEN pq[2] ELSE <<>>]

\* parse_qs(query).get("v", [None])[0]: the fields are split at '&', each at
\* its first '='; a field without '=' or with an empty value is dropped
\* (keep_blank_values=False); the first remaining value named v is returned.
RECURSIVE FirstV(_)
FirstV(pairs) ==
  IF pairs = <<>> THEN None
  ELSE LET nv == Split1(Head(pairs), "=")
       IN IF Len(nv) = 2 /\ nv[2] # <<>> /\ nv[1] = <<"v">>
          THEN Str(nv[2])
          ELSE FirstV(Tail(pairs))

parse_qs_v(query) == IF query = <<>> THEN None ELSE FirstV(Split(query, "&"))

\* youtube_id(url), app.py:54-59.
youtube_id(url) ==
  LET q == urlparse(url)
  IN IF ~q.ok THEN Raised("ValueError")
     ELSE IF q.hostname = Str(<<"youtu.be">>) THEN Str(From(q.path, 1))
     ELSE IF q.hostname \in {Str(<<"www.youtube.com">>), Str(<<"youtube.com">>)}
             /\ q.path = <<"/", "watch">>
          THEN parse_qs_v(q.query)
     ELSE None


\* ------------------------------------------------------------------ state
VARIABLES
  accounts,            \* Auth Provider: the e-mails that have an account
  user_profile,        \* table user_profile: the rows with the user's id
  youtube_transcripts, \* table youtube_transcripts: the video_id of each row
  today,               \* date.today()
  user,                \* st.session_state.user, NoUser while the key is unset
  radio,               \* the sidebar radio "Mode"
  links_text,          \* the text area "link_input": a list of lines
  mode,                \* the screen the latest run of the script ended in
  prof,                \* prof of the latest run (app.py:124): <<>> or <<row>>
  msgs,                \* what the latest run wrote to the page
  crashed,             \* the call whose exception ended the latest run, or "none"
  asof,                \* date.today() as the latest run read it
  answered             \* chat exchanges completed on the current day

vars == <<accounts, user_profile, youtube_transcripts, today, user, radio,
          links_text, mode, prof, msgs, crashed, asof, answered>>

NoUser == "NoUser"
Emails == {"", "u1"}
Passwords == {"", "pw", "bad"}
Password == "pw"

\* str(date.today()) and the text of a date column; NoDate is a NULL column.
DateStr(d) == <<"date", d>>
NoDate == <<>>

Row(a, c, n, d) ==
  [approved |-> a, can_chat |-> c, daily_chat_count |-> n, last_chat_date |-> d]

\* The row the sign-up trigger of the hosted database creates.
DefaultRow == Row(FALSE, FALSE, 0, NoDate)

Msg(kind, about, text) == [kind |-> kind, about |-> about, text |-> text]

\* The lines a user pastes into the text area: LinkTexts in Spec, SampleTexts
\* besides the single links in SpecUrl.
Https == <<"https:", "/", "/">>
LinkTexts ==
  { <<>>,
    << <<" ">> \o Https \o <<"youtu.be", "/", "a", " ">>, <<" ">> >>,
    << Https \o <<"[">>, Https \o <<"youtu.be", "/", "a">> >> }
SampleTexts ==
  { << Https \o <<"example.com", "/", "a">>,
       Https \o <<"www.youtube.com", "/", "watch", "?", "v", "=", "b", "&", "t", "=", "a">> >>,
    << Https \o <<"[">>, Https \o <<"youtu.be", "/", "a">> >>,
    << Https \o <<"youtu.be">>, Https \o <<"YOUTU.BE", "/", "a", "/", "b">> >> }

\* ------------------------------------------------------------ helper fns
\* yt_transcript(vid), app.py:61-63.  out is what get_transcript does:
\* "transcript" (a non-empty list), "empty" (an empty list), "disabled"
\* (TranscriptsDisabled or NoTranscriptFound), "raise" (any other exception).
yt_transcript(out) ==
  CASE out = "transcript" -> [tag |-> "list", val |-> <<"text">>]
    [] out = "empty" -> [tag |-> "list", val |-> <<>>]
    [] out = "disabled" -> None
    [] OTHER -> Raised("TranscriptError")

\* save_transcript(vid, tr), app.py:65-73: one row inserted.
save_transcript(rows, vid) == Append(rows, vid)

\* profile(uid), app.py:75-76.  lk = "data": the store answers with the row,
\* or with no data when there is none; lk = "raise": execute() raises (no row
\* for .single(), or the request failed).
profile(lk) ==
  IF lk = "raise" THEN Raised("APIError")
  ELSE [tag |-> "data", val |-> user_profile]

bump_counter_increment(rows, d) ==
  [i \in 1..Len(rows) |->
     [rows[i] EXCEPT !.daily_chat_count = @ + 1, !.last_chat_date = DateStr(d)]]

\* bump_counter(uid), app.py:78-81: the update of the rows with the user's id.
bump_counter(rows, d) ==
  [i \in 1..Len(rows) |->
     [rows[i] EXCEPT !.daily_chat_count = 1, !.last_chat_date = DateStr(d)]]

\* --------------------------------------------------- the script's sections
Run(p, m, ms, c) == [prof |-> p, mode |-> m, msgs |-> ms, crashed |-> c]

ApprovalGate_can_chat_suffices(lk) ==
  LET r == profile(lk)
  IN IF r.tag = "raise" THEN Run(<<>>, "Error", <<>>, "profile")
     ELSE IF r.val = <<>> \/ (~r.val[1].approved /\ ~r.val[1].can_chat)
          THEN Run(r.val, "PendingApproval",
                   <<Msg("warning", <<>>, "Awaiting admin approval")>>, "none")
     ELSE Run(r.val, "Main", <<>>, "none")

\* Approval gate, app.py:122-127.  mode "Main" is the script going on to the
\* main app; "Error" is a run that an exception ended before any screen.
ApprovalGate(lk) ==
  LET r == profile(lk)
  IN IF r.tag = "raise" THEN Run(<<>>, "Error", <<>>, "profile")
     ELSE IF r.val = <<>> \/ ~r.val[1].approved
          THEN Run(r.val, "PendingApproval",
                   <<Msg("warning", <<>>, "Awaiting admin approval")>>, "none")
     ELSE Run(r.val, "Main", <<>>, "none")

QuotaReached_ignores_date(p, d) == p.daily_chat_count >= Quota

\* The quota check, app.py:154.
QuotaReached(p, d) ==
  p.last_chat_date = DateStr(d) /\ p.daily_chat_count >= Quota

ChatbotGate_quota_first(p, d, rs) ==
  IF QuotaReached(p, d)
  THEN Run(<<p>>, "QuotaExceeded",
           <<Msg("warning", <<>>, "Daily quota (2 questions) reached.")>>, "none")
  ELSE IF ~p.can_chat
  THEN Run(<<p>>, "ChatDisabled",
           <<Msg("info", <<>>, "Chatbot not enabled for your account.")>>, "none")
  ELSE IF rs = "raise" THEN Run(<<p>>, "ChatReady", <<>>, "rows")
  ELSE IF youtube_transcripts = <<>>
  THEN Run(<<p>>, "ChatReady",
           <<Msg("info", <<>>, "No transcripts stored yet.")>>, "none")
  ELSE Run(<<p>>, "ChatReady", <<>>, "none")

\* Chatbot branch up to the question input, app.py:150-168.  rs is what the
\* select of the stored transcripts does: "data" or "raise".
ChatbotGate(p, d, rs) ==
  IF ~p.can_chat
  THEN Run(<<p>>, "ChatDisabled",
           <<Msg("info", <<>>, "Chatbot not enabled for your account.")>>, "none")
  ELSE IF QuotaReached(p, d)
  THEN Run(<<p>>, "QuotaExceeded",
           <<Msg("warning", <<>>, "Daily quota (2 questions) reached.")>>, "none")
  ELSE IF rs = "raise" THEN Run(<<p>>, "ChatReady", <<>>, "rows")
  ELSE IF youtube_transcripts = <<>>
  THEN Run(<<p>>, "ChatReady",
           <<Msg("info", <<>>, "No transcripts stored yet.")>>, "none")
  ELSE Run(<<p>>, "ChatReady", <<>>, "none")

\* The question input is on the page: the latest run reached app.py:168.
QuestionInputShown ==
  /\ mode = "ChatReady"
  /\ crashed # "rows"
  /\ \A i \in 1..Len(msgs) : msgs[i].text # "No transcripts stored yet."

\* The option of the select box for a stored row and the video id read back
\* from it, app.py:161-166.
Label(vid) == <<"Video", " ">> \o vid \o <<" ", "(">> \o vid \o <<")">>
VidOfLabel(label) ==
  LET parts == Split(label, "(")
      last == parts[Len(parts)]
  IN UpTo(last, Len(last) - 1)

\* The lines the Fetch loop goes through, app.py:138.
RECURSIVE NonBlank(_)
NonBlank(lines) ==
  IF lines = <<>> THEN <<>>
  ELSE IF Strip(Head(lines)) # <<>>
       THEN <<Strip(Head(lines))>> \o NonBlank(Tail(lines))
       ELSE NonBlank(Tail(lines))

FetchOutcomes ==
  { <<"transcript", "ok">>, <<"transcript", "raise">>, <<"empty", "ok">>,
    <<"disabled", "ok">>, <<"raise", "ok">> }

\* The Fetch loop, app.py:138-147, from link k on.  outs[k] is what the
\* Transcript Provider and the insert do for link k; acc is the table, the
\* page and the exception so far.
RECURSIVE FetchLoop(_, _, _, _)
FetchLoop(links, outs, k, acc) ==
  IF k > Len(links) THEN acc
  ELSE
    LET link == links[k]
        vid == youtube_id(link)
        tr == yt_transcript(outs[k][1])
    IN IF vid.tag = "raise" THEN [acc EXCEPT !.crashed = "youtube_id"]
       ELSE IF ~Truthy(vid)
       THEN FetchLoop(links, outs, k + 1,
              [acc EXCEPT !.msgs = Append(@, Msg("error", link, "invalid"))])
       ELSE IF tr.tag = "raise" THEN [acc EXCEPT !.crashed = "yt_transcript"]
       ELSE IF tr.tag = "list" /\ tr.val # <<>>
       THEN IF outs[k][2] = "raise"
            THEN [acc EXCEPT !.crashed = "save_transcript"]
            ELSE FetchLoop(links, outs, k + 1,
                   [acc EXCEPT !.rows = save_transcript(@, vid.val),
                               !.msgs = Append(@, Msg("success", link, "saved"))])
       ELSE FetchLoop(links, outs, k + 1,
              [acc EXCEPT !.msgs = Append(@, Msg("warning", link, "no transcript"))])

\* The end of a run: what it leaves on the page.
Finish(r) ==
  /\ prof' = r.prof
  /\ mode' = r.mode
  /\ msgs' = r.msgs
  /\ crashed' = r.crashed
  /\ asof' = today

\* A run of the main app with no button pressed and no question typed,
\* app.py:122-168.
Rerun(r, lk, rs) ==
  LET g == ApprovalGate(lk)
  IN IF g.mode # "Main" THEN Finish(g)
     ELSE IF r = "Downloader" THEN Finish(Run(g.prof, "Downloader", <<>>, "none"))
     ELSE Finish(ChatbotGate(g.prof[1], today, rs))

\* ------------------------------------------------------------------ Auth UI
\* supabase.auth.sign_in_with_password, app.py:95-97.  out = "raise" is an
\* exception other than AuthApiError (the request itself failed).
sign_in(email, pw, out) ==
  IF out = "raise" THEN Raised("Exception")
  ELSE IF email \in accounts /\ pw = Password THEN [tag |-> "user", val |-> email]
  ELSE Raised("AuthApiError")

AuthScreen(ms, c) == Finish(Run(<<>>, "Unauthenticated", ms, c))

\* The Login button, app.py:90-101, and the run st.rerun() starts.
LoginPress(email, pw, out, lk, rs) ==
  /\ user = NoUser
  /\ UNCHANGED <<accounts, user_profile, youtube_transcripts, today, radio,
                 links_text, answered>>
  /\ IF email = "" \/ pw = ""
     THEN /\ user' = user
          /\ AuthScreen(<<Msg("error", <<>>, "Email & password required")>>, "none")
     ELSE LET a == sign_in(email, pw, out)
          IN IF a.tag = "user" THEN user' = a.val /\ Rerun(radio, lk, rs)
             ELSE IF a = Raised("AuthApiError")
             THEN /\ user' = user
                  /\ AuthScreen(<<Msg("error", <<>>, "AuthApiError")>>, "none")
             ELSE user' = user /\ AuthScreen(<<>>, "sign_in")

SignupPress_logs_in(email, pw, out) ==
  /\ user = NoUser
  /\ UNCHANGED <<user_profile, youtube_transcripts, today, radio, links_text,
                 answered>>
  /\ IF email = "" \/ pw = ""
     THEN /\ UNCHANGED <<accounts, user>>
          /\ AuthScreen(<<Msg("error", <<>>, "Email & password required")>>, "none")
     ELSE IF out = "ok"
     THEN /\ accounts' = accounts \cup {email}
          /\ user' = email
          /\ AuthScreen(<<Msg("success", <<>>, "Account created")>>, "none")
     ELSE IF out = "AuthApiError"
     THEN /\ UNCHANGED <<accounts, user>>
          /\ AuthScreen(<<Msg("error", <<>>, "AuthApiError")>>, "none")
     ELSE UNCHANGED <<accounts, user>> /\ AuthScreen(<<>>, "sign_up")

\* The Create account button, app.py:107-119.  out is what sign_up does:
\* "ok", "AuthApiError" or "raise" (another exception).
SignupPress(email, pw, out) ==
  /\ user = NoUser
  /\ UNCHANGED <<user, user_profile, youtube_transcripts, today, radio,
                 links_text, answered>>
  /\ IF email = "" \/ pw = ""
     THEN /\ UNCHANGED accounts
          /\ AuthScreen(<<Msg("error", <<>>, "Email & password required")>>, "none")
     ELSE IF out = "ok"
     THEN /\ accounts' = accounts \cup {email}
          /\ AuthScreen(<<Msg("success", <<>>, "Account created")>>, "none")
     ELSE IF out = "AuthApiError"
     THEN /\ UNCHANGED accounts
          /\ AuthScreen(<<Msg("error", <<>>, "AuthApiError")>>, "none")
     ELSE UNCHANGED accounts /\ AuthScreen(<<>>, "sign_up")

\* A new browser session: st.session_state is empty again and the script
\* stops in the Auth UI, app.py:84-120.
NewSession ==
  /\ user # NoUser
  /\ user' = NoUser
  /\ radio' = "Downloader"
  /\ links_text' = <<>>
  /\ AuthScreen(<<>>, "none")
  /\ UNCHANGED <<accounts, user_profile, youtube_transcripts, today, answered>>

\* ----------------------------------------------------------------- Main app
RadioShown == mode \in {"Downloader", "ChatDisabled", "QuotaExceeded", "ChatReady"}

\* A run with the sidebar radio at r and nothing else done, app.py:122-168.
View(r, lk, rs) ==
  /\ user # NoUser
  /\ r = radio \/ RadioShown
  /\ radio' = r
  /\ Rerun(r, lk, rs)
  /\ UNCHANGED <<accounts, user_profile, youtube_transcripts, today, user,
                 links_text, answered>>

\* The text area edited, app.py:136: the script runs with the new text.
TypeLinks(text, lk, rs) ==
  /\ user # NoUser
  /\ mode = "Downloader"
  /\ links_text' = text
  /\ Rerun(radio, lk, rs)
  /\ UNCHANGED <<accounts, user_profile, youtube_transcripts, today, user,
                 radio, answered>>

\* The Fetch button, app.py:137-147.
FetchPress(outs, lk) ==
  /\ user # NoUser
  /\ mode = "Downloader"
  /\ Len(youtube_transcripts) + Len(NonBlank(links_text)) <= MaxRows
  /\ LET g == ApprovalGate(lk)
         acc == FetchLoop(NonBlank(links_text), outs, 1,
                  [rows |-> youtube_transcripts, msgs |-> <<>>, crashed |-> "none"])
     IN IF g.mode # "Main"
        THEN Finish(g) /\ UNCHANGED youtube_transcripts
        ELSE /\ youtube_transcripts' = acc.rows
             /\ Finish(Run(g.prof, "Downloader", acc.msgs, acc.crashed))
  /\ UNCHANGED <<accounts, user_profile, today, user, radio, links_text, answered>>

Count(rows, vid) == Cardinality({i \in 1..Len(rows) : rows[i] = vid})

Exchange(rows, ms, c, n) == [rows |-> rows, msgs |-> ms, crashed |-> c, answered |-> n]

ChatExchange_bumps_on_error(vid, ts, co, bo) ==
  IF ts = "raise" \/ Count(youtube_transcripts, vid) # 1
  THEN Exchange(user_profile, <<>>, "transcript_text", 0)
  ELSE IF co = "ProviderError"
  THEN Exchange(bump_counter(user_profile, today),
                <<Msg("error", <<>>, "ProviderError")>>, "none", 0)
  ELSE IF bo = "raise"
  THEN Exchange(user_profile,
                <<Msg("chat", vid, "question"), Msg("chat", vid, "answer"),
                  Msg("error", <<>>, "APIError")>>, "none", 0)
  ELSE Exchange(bump_counter(user_profile, today),
                <<Msg("chat", vid, "question"), Msg("chat", vid, "answer")>>,
                "none", 1)

\* A question about the video vid, app.py:169-185.  ts is what the select of
\* the transcript text does ("data" or "raise"; .single() also raises unless
\* exactly one row has the video_id), co what the completion does ("answer"
\* or "ProviderError"), bo what the update of bump_counter does.  The last
\* field counts the exchange when it ran to its end (app.py:183 returned).
ChatExchange(vid, ts, co, bo) ==
  IF ts = "raise" \/ Count(youtube_transcripts, vid) # 1
  THEN Exchange(user_profile, <<>>, "transcript_text", 0)
  ELSE IF co = "ProviderError"
  THEN Exchange(user_profile, <<Msg("error", <<>>, "ProviderError")>>, "none", 0)
  ELSE IF bo = "raise"
  THEN Exchange(user_profile,
                <<Msg("chat", vid, "question"), Msg("chat", vid, "answer"),
                  Msg("error", <<>>, "APIError")>>, "none", 0)
  ELSE Exchange(bump_counter(user_profile, today),
                <<Msg("chat", vid, "question"), Msg("chat", vid, "answer")>>,
                "none", 1)

\* A question typed into the question input, app.py:122-185, about the
\* video at position idx of the select box.
Ask(idx, lk, rs, ts, co, bo) ==
  /\ user # NoUser
  /\ QuestionInputShown
  /\ answered < MaxAnswered
  /\ idx \in 1..Len(youtube_transcripts)
  /\ LET g == ApprovalGate(lk)
         c == ChatbotGate(g.prof[1], today, rs)
         x == ChatExchange(VidOfLabel(Label(youtube_transcripts[idx])), ts, co, bo)
     IN IF g.mode # "Main"
        THEN Finish(g) /\ UNCHANGED <<user_profile, answered>>
        ELSE IF c.mode # "ChatReady" \/ c.crashed # "none" \/ c.msgs # <<>>
        THEN Finish(c) /\ UNCHANGED <<user_profile, answered>>
        ELSE /\ Finish(Run(g.prof, "ChatReady", x.msgs, x.crashed))
             /\ user_profile' = x.rows
             /\ answered' = answered + x.answered
  /\ UNCHANGED <<accounts, youtube_transcripts, today, user, radio, links_text>>

\* ------------------------------------------------------- external parties
\* The sign-up trigger of the hosted database creates the profile row.
AdminCreateProfile ==
  /\ accounts # {}
  /\ user_profile = <<>>
  /\ user_profile' = <<DefaultRow>>
  /\ UNCHANGED <<accounts, youtube_transcripts, today, user, radio, links_text,
                 mode, prof, msgs, crashed, asof, answered>>

\* The administrator approves the user.
AdminApprove ==
  /\ user_profile # <<>>
  /\ ~user_profile[1].approved
  /\ user_profile' = <<[user_profile[1] EXCEPT !.approved = TRUE]>>
  /\ UNCHANGED <<accounts, youtube_transcripts, today, user, radio, links_text,
                 mode, prof, msgs, crashed, asof, answered>>

\* The administrator turns the chatbot on or off for the user.
AdminSetCanChat ==
  /\ user_profile # <<>>
  /\ user_profile' = <<[user_profile[1] EXCEPT !.can_chat = ~@]>>
  /\ UNCHANGED <<accounts, youtube_transcripts, today, user, radio, links_text,
                 mode, prof, msgs, crashed, asof, answered>>

\* Midnight: date.today() moves on.
NextDay ==
  /\ today < MaxDay
  /\ today' = today + 1
  /\ answered' = 0
  /\ UNCHANGED <<accounts, user_profile, youtube_transcripts, user, radio,
                 links_text, mode, prof, msgs, crashed, asof>>

\* --------------------------------------------------------- specifications
ProfileRows ==
  { Row(a, c, n, d) : a \in BOOLEAN, c \in BOOLEAN, n \in 0..MaxCount,
                      d \in {NoDate, DateStr(1)} }

InitSession ==
  /\ youtube_transcripts = <<>>
  /\ today = 1
  /\ user = NoUser
  /\ radio = "Downloader"
  /\ links_text = <<>>
  /\ mode = "Unauthenticated"
  /\ prof = <<>>
  /\ msgs = <<>>
  /\ crashed = "none"
  /\ asof = 1
  /\ answered = 0

Init ==
  /\ accounts \in {{}, {"u1"}}
  /\ user_profile \in {<<>>} \cup
       (IF accounts = {} THEN {} ELSE {<<r>> : r \in ProfileRows})
  /\ InitSession

\* A run makes its calls to the hosted services in sequence and the first
\* exception ends it (or is reported, in the try block of app.py:172-185), so
\* a run is told which of its calls fails, if any.
Calls == {"none", "sign_in", "profile", "rows", "transcript_text", "completion",
          "bump_counter"}
Outcome(f, call) == IF f = call THEN "raise" ELSE "data"
Completion(f) == IF f = "completion" THEN "ProviderError" ELSE "answer"

Next ==
  \/ \E e \in Emails, pw \in Passwords, f \in {"none", "sign_in", "profile", "rows"} :
        LoginPress(e, pw, Outcome(f, "sign_in"), Outcome(f, "profile"),
                   Outcome(f, "rows"))
  \/ \E e \in Emails, pw \in Passwords, out \in {"ok", "AuthApiError", "raise"} :
        SignupPress(e, pw, out)
  \/ NewSession
  \/ \E r \in {"Downloader", "Chatbot"}, f \in {"none", "profile", "rows"} :
        View(r, Outcome(f, "profile"), Outcome(f, "rows"))
  \/ \E text \in LinkTexts, f \in {"none", "profile"} :
        TypeLinks(text, Outcome(f, "profile"), Outcome(f, "rows"))
  \/ \E outs \in [1..Len(NonBlank(links_text)) -> FetchOutcomes],
        f \in {"none", "profile"} : FetchPress(outs, Outcome(f, "profile"))
  \/ \E idx \in 1..Len(youtube_transcripts), f \in Calls \ {"sign_in"} :
        Ask(idx, Outcome(f, "profile"), Outcome(f, "rows"),
            Outcome(f, "transcript_text"), Completion(f),
            Outcome(f, "bump_counter"))
  \/ AdminCreateProfile
  \/ AdminApprove
  \/ AdminSetCanChat
  \/ NextDay

Spec == Init /\ [][Next]_vars

\* The gate as its only writer of the counter finds it: at most 1 at the start.
InitGateOnly ==
  /\ Init
  /\ \A i \in 1..Len(user_profile) : user_profile[i].daily_chat_count <= 1

SpecGateOnly == InitGateOnly /\ [][Next]_vars

\* The links youtube_id is applied to: [scheme] // host path [? field [& field]].
SeqsUpTo(S, n) == UNION {[1..k -> S] : k \in 0..n}
UrlPrefixes == {Https, <<"/", "/">>, <<>>}
UrlHosts ==
  { <<>>, <<"youtu.be">>, <<"YOUTU.BE">>, <<"www.youtube.com">>, <<"youtube.com">>,
    <<"example.com">>, <<"youtu.be", "[">> }
UrlPaths == SeqsUpTo({"/", "watch", "a"}, MaxPathLen)
UrlFields == SeqsUpTo({"v", "=", "a"}, MaxParamLen)
UrlSecondFields == {<<>>, <<"&", "v", "=", "b">>, <<"&", "t", "=", "a">>}
UrlQueries(fields) ==
  {<<>>} \cup {<<"?">> \o f \o g : f \in fields, g \in UrlSecondFields}
Url(pre, h, p, q) == pre \o h \o p \o q

\* An approved user on the Downloader page with links in the text area.
InitUrl ==
  /\ accounts = {"u1"}
  /\ user_profile = <<Row(TRUE, FALSE, 0, NoDate)>>
  /\ youtube_transcripts = <<>>
  /\ today = 1
  /\ user = "u1"
  /\ radio = "Downloader"
  /\ \/ \E pre \in UrlPrefixes, h \in UrlHosts, p \in UrlPaths,
           q \in UrlQueries(UrlFields) : links_text = <<Url(pre, h, p, q)>>
     \/ links_text \in SampleTexts
  /\ mode = "Downloader"
  /\ prof = user_profile
  /\ msgs = <<>>
  /\ crashed = "none"
  /\ asof = 1
  /\ answered = 0

NextUrl ==
  \E outs \in [1..Len(NonBlank(links_text)) -> FetchOutcomes],
     f \in {"none", "profile"} : FetchPress(outs, Outcome(f, "profile"))

SpecUrl == InitUrl /\ [][NextUrl]_vars

\* ------------------------------------------------------------------ claims
HasMsg(ms, t) == \E i \in 1..Len(ms) : ms[i].text = t
MainModes == {"Downloader", "ChatDisabled", "QuotaExceeded", "ChatReady"}
\* The latest run of an authenticated session got an answer from the
\* Profile Store.
Fetched == user # NoUser /\ crashed # "profile"
Counters(rows) ==
  [i \in 1..Len(rows) |-> <<rows[i].daily_chat_count, rows[i].last_chat_date>>]

\* C1: a session whose fetched Profile is absent or has approved = FALSE is in
\* PendingApproval whatever can_chat, the counter, the date and the radio
\* are; a session in Downloader or in a Chatbot mode has a fetched Profile
\* with approved = TRUE.
C1_ApprovalGate ==
  /\ mode \in MainModes => prof # <<>> /\ prof[1].approved
  /\ Fetched /\ (prof = <<>> \/ ~prof[1].approved) => mode = "PendingApproval"

C1_Witness ==
  /\ mode = "PendingApproval"
  /\ prof # <<>>
  /\ ~prof[1].approved
  /\ prof[1].can_chat
  /\ prof[1].daily_chat_count >= 2

\* C2: no more than 2 chat exchanges are completed (answer written, counter
\* bumped) for the user on one calendar day.
C2_TwoAnswersPerDay == answered <= 2

\* C3: for an approved Profile with Chatbot selected the mode is ChatDisabled
\* when can_chat = FALSE (also when the quota check fails too), else
\* QuotaExceeded when the quota check fails, else ChatReady; ChatReady only
\* with can_chat = TRUE and a passing quota check.
C3_ChatbotOrder ==
  /\ Fetched /\ radio = "Chatbot" /\ prof # <<>> /\ prof[1].approved =>
       mode = IF ~prof[1].can_chat THEN "ChatDisabled"
              ELSE IF prof[1].last_chat_date = DateStr(asof)
                      /\ prof[1].daily_chat_count >= 2 THEN "QuotaExceeded"
              ELSE "ChatReady"
  /\ mode = "ChatReady" =>
       /\ prof # <<>> /\ prof[1].can_chat
       /\ ~(prof[1].last_chat_date = DateStr(asof) /\ prof[1].daily_chat_count >= 2)

C3_Witness ==
  /\ mode = "ChatDisabled"
  /\ prof[1].last_chat_date = DateStr(asof)
  /\ prof[1].daily_chat_count >= 2

\* C4: with Chatbot selected and can_chat = TRUE the quota check denies exactly
\* when last_chat_date is the day of the run and daily_chat_count >= 2; with
\* another or no last_chat_date it allows for every value of the counter.
C4_QuotaCheck ==
  Fetched /\ radio = "Chatbot" /\ prof # <<>> /\ prof[1].approved /\ prof[1].can_chat =>
    /\ mode = "QuotaExceeded" <=>
         (prof[1].last_chat_date = DateStr(asof) /\ prof[1].daily_chat_count >= 2)
    /\ prof[1].last_chat_date # DateStr(asof) => mode = "ChatReady"

C4_Witness ==
  /\ mode = "ChatReady"
  /\ asof = 2
  /\ prof[1].last_chat_date = DateStr(1)
  /\ prof[1].daily_chat_count >= 2

\* C5: every write of the counter sets daily_chat_count to 1 and last_chat_date
\* to today; from a counter of at most 1 the counter stays at most 1 and
\* QuotaExceeded is never reached, however many answers were given that day.
C5_ResetToOne ==
  /\ [](/\ \A i \in 1..Len(user_profile) : user_profile[i].daily_chat_count <= 1
        /\ mode # "QuotaExceeded")
  /\ [][user_profile # <<>> /\ Counters(user_profile') # Counters(user_profile) =>
          Counters(user_profile') = <<<<1, DateStr(today)>>>>]_vars

C5_Witness ==
  /\ answered >= 2
  /\ mode = "ChatReady"
  /\ Counters(user_profile) = <<<<1, DateStr(today)>>>>
  /\ Counters(prof) = <<<<1, DateStr(today)>>>>

\* C6: while no user is held the session is Unauthenticated and no Profile is
\* fetched; a user is held only after a sign_in with the e-mail of an account,
\* and no sign_up makes the session authenticated.
C6_UnauthenticatedUntilSignIn ==
  /\ [](user = NoUser => mode = "Unauthenticated" /\ prof = <<>>)
  /\ [][user = NoUser /\ user' # NoUser =>
          user' \in accounts /\ user' # "" /\ accounts' = accounts]_vars
  /\ [][user = NoUser /\ (HasMsg(msgs', "Email & password required")
                          \/ HasMsg(msgs', "AuthApiError")
                          \/ accounts' # accounts) => user' = NoUser]_vars

C6_Witness ==
  /\ user = NoUser
  /\ "u1" \in accounts
  /\ HasMsg(msgs, "Account created")

\* C7: the counter and the date of the Profile change only in a run that
\* wrote an answer to the page; a run that ends in any mode without an
\* answer, and one whose completion fails, leave them as they were; and a run
\* on the same user, fetched Profile, radio and day ends in the same mode.
C7_OnlyConsumeWrites ==
  /\ [][user_profile # <<>> /\ Counters(user_profile') # Counters(user_profile) =>
          /\ mode' = "ChatReady"
          /\ HasMsg(msgs', "answer")
          /\ ~HasMsg(msgs', "ProviderError")
          /\ answered' = answered + 1]_vars
  /\ [][/\ Fetched /\ Fetched'
        /\ user' = user /\ prof' = prof /\ radio' = radio /\ asof' = asof
        => mode' = mode]_vars

C7_Witness ==
  /\ mode = "ChatReady"
  /\ HasMsg(msgs, "ProviderError")
  /\ user_profile = prof

\* C8: no failure of a call to the Profile Store, the Transcript Store or the
\* Transcript Provider ends a run with an exception no handler caught.
C8_NoUnhandledFailure ==
  crashed \notin {"profile", "rows", "transcript_text", "yt_transcript",
                  "save_transcript"}

\* C9: youtube_id never raises; it returns the sole path segment for the host
\* youtu.be, the first value of v for a youtube.com host under /watch, and
\* None for every other host or path.
C9_ExtractVideoId ==
  \A i \in 1..Len(links_text) :
    LET u == Strip(links_text[i])
        q == urlparse(u)
        r == youtube_id(u)
        short == /\ q.hostname = Str(<<"youtu.be">>)
                 /\ Len(q.path) >= 2 /\ q.path[1] = "/"
                 /\ \A k \in 2..Len(q.path) : q.path[k] # "/"
        long == /\ q.hostname \in {Str(<<"www.youtube.com">>), Str(<<"youtube.com">>)}
                /\ q.path = <<"/", "watch">>
        val == SubSeq(q.query, 3, Find(q.query, {"&"}, 3) - 1)
    IN /\ r.tag # "raise"
       /\ short => r = Str(Tail(q.path))
       /\ long /\ Len(q.query) >= 3 /\ q.query[1] = "v" /\ q.query[2] = "="
               /\ q.query[3] # "&" => r = Str(val)
       /\ long /\ (\A k \in 1..Len(q.query) : q.query[k] # "v") => r = None
       /\ ~short /\ ~long => r = None

\* C10: a Fetch press that reaches the Downloader page, with every call to
\* the Transcript Provider and the store answering, gives each non-blank line
\* one outcome, in order: invalid when no video id is extracted, else saved or
\* no transcript; and it inserts one row per saved line.
C10_FetchOutcomes ==
  [][(\E outs \in [1..Len(NonBlank(links_text)) ->
                     {<<"transcript", "ok">>, <<"empty", "ok">>, <<"disabled", "ok">>}] :
        FetchPress(outs, "data")) /\ mode' = "Downloader" =>
      LET links == NonBlank(links_text)
          saved == {k \in 1..Len(msgs') : msgs'[k].text = "saved"}
      IN /\ Len(msgs') = Len(links)
         /\ \A k \in 1..Len(links) :
              /\ msgs'[k].about = links[k]
              /\ msgs'[k].text \in {"invalid", "saved", "no transcript"}
         /\ Len(youtube_transcripts') = Len(youtube_transcripts) + Cardinality(saved)
     ]_vars

=============================================================================
